---- MODULE Spec2Model ----
(***************************************************************************)
(* Model of src/app.py (UtaVocab2): the "Process" button handler that      *)
(* validates pasted lyrics, builds a prompt, calls the Gemini model once,  *)
(* cleans the raw answer, decodes it as JSON and renders the vocabulary.   *)
(*                                                                         *)
(* Text is a sequence of characters.  A character is a one-element string  *)
(* naming it ("bt" for a backtick, "j", "sp" for a space, "nl" for a        *)
(* newline, "hira" for a hiragana letter).  A JSON document inside a model answer is one    *)
(* chunk of text named by what it spells ("{vocab:[]}"): the code never    *)
(* looks inside it except through json.loads.                              *)
(***************************************************************************)
EXTENDS Integers, Sequences, FiniteSets, TLC

VARIABLES
    API_KEY,      \* TRUE when a key was typed or found in the environment
    model,        \* "None" or "loaded"
    pc,           \* position of the script run started by the Process button
    lyrics,       \* content of the lyrics text area
    num_words,    \* content of the number input
    client,       \* what the model client answers to its 1st, 2nd, ... call
    prompt,       \* prompt sent to the model
    calls,        \* number of model.generate_content calls made by this run
    waits,        \* seconds slept between calls by this run, in order
    raw_output,   \* return value of call_gemini
    cleaned,      \* return value of clean_gemini_output
    data,         \* return value of parse_json_safely
    vocab_list,   \* data.get("vocab", [])
    errors,       \* st.error banners shown by this run, in order
    outcome,      \* "none", "Done", "Failed" (st.stop after st.error), "Crashed"
    uncaught,     \* name of the uncaught Python exception, "" when none
    trail,        \* stages this run has entered, in order
    sanTrace      \* <<x, clean(x), clean(clean(x))>> of the sanitizer runs

vars == <<API_KEY, model, pc, lyrics, num_words, client, prompt, calls, waits,
          raw_output, cleaned, data, vocab_list, errors, outcome, uncaught,
          trail, sanTrace>>

(***************************************************************************)
(* Bounds of the model and constants of the program.                       *)
(***************************************************************************)
MaxPad == 1
MaxJp == 16
MaxLatin == 2
ScriptLen == 3
MaxTokens == 6

JpThreshold == 15
LengthFactor == 4
MinWords == 1
MaxWords == 20
PromptCap == 500
JsonFenceLen == 7
FenceLen == 3

(***************************************************************************)
(* Python string primitives.                                               *)
(***************************************************************************)
Whitespace == {"sp", "nl"}

MinOf(S) == CHOOSE i \in S : \A j \in S : i <= j
MaxOf(S) == CHOOSE i \in S : \A j \in S : i >= j

\* str.strip()
strip(s) ==
    LET keep == {i \in 1..Len(s) : s[i] \notin Whitespace}
    IN  IF keep = {} THEN <<>> ELSE SubSeq(s, MinOf(keep), MaxOf(keep))

\* an index of a slice, as Python normalises it
SliceIndex(i, n) ==
    IF i < 0 THEN (IF i + n < 0 THEN 0 ELSE i + n)
    ELSE (IF i > n THEN n ELSE i)

\* s[a:b]
PySlice(s, a, b) ==
    LET lo == SliceIndex(a, Len(s))
        hi == SliceIndex(b, Len(s))
    IN  IF lo >= hi THEN <<>> ELSE SubSeq(s, lo + 1, hi)

startswith(s, p) == Len(s) >= Len(p) /\ SubSeq(s, 1, Len(p)) = p
endswith(s, p) == Len(s) >= Len(p) /\ SubSeq(s, Len(s) - Len(p) + 1, Len(s)) = p

Rep(c, n) == [i \in 1..n |-> c]

FENCE == <<"bt", "bt", "bt">>
JSONTAG == <<"j", "s", "o", "n">>

(***************************************************************************)
(* Helper functions of the program.                                        *)
(***************************************************************************)
\* the characters matched by the regular expression class: hiragana,
\* katakana, the long-vowel mark (with the iteration marks) and kanji
JpChars == {"hira", "kata", "choon", "kanji"}

IsJpChar(c) == c \in JpChars

is_japanese(text) == Len(SelectSeq(text, IsJpChar)) >= JpThreshold

build_prompt(l, n) == [num_words |-> n, lyrics |-> PySlice(l, 0, PromptCap)]

clean_gemini_output_no_tag(text) ==
    LET t == strip(text)
    IN  IF startswith(t, FENCE) /\ endswith(t, FENCE)
        THEN strip(PySlice(t, FenceLen, 0 - FenceLen))
        ELSE t

clean_gemini_output_no_inner_strip(text) ==
    LET t == strip(text)
    IN  IF startswith(t, FENCE \o JSONTAG) /\ endswith(t, FENCE)
        THEN PySlice(t, JsonFenceLen, 0 - FenceLen)
        ELSE IF startswith(t, FENCE) /\ endswith(t, FENCE)
        THEN PySlice(t, FenceLen, 0 - FenceLen)
        ELSE t

clean_gemini_output(text) ==
    LET t == strip(text)
    IN  IF startswith(t, FENCE \o JSONTAG) /\ endswith(t, FENCE)
        THEN strip(PySlice(t, JsonFenceLen, 0 - FenceLen))
        ELSE IF startswith(t, FENCE) /\ endswith(t, FENCE)
        THEN strip(PySlice(t, FenceLen, 0 - FenceLen))
        ELSE t

(***************************************************************************)
(* JSON values.  An entry of a vocab array is the set of its keys.         *)
(***************************************************************************)
Fields == {"word", "furigana", "translation", "jlpt", "example"}

NoVal == [type |-> "none", items |-> <<>>, num |-> 0]
Null == [type |-> "null", items |-> <<>>, num |-> 0]
Num(k) == [type |-> "number", items |-> <<>>, num |-> k]
Arr(xs) == [type |-> "array", items |-> xs, num |-> 0]

NoDoc == [type |-> "none", hasVocab |-> FALSE, vocab |-> NoVal]
Obj(v) == [type |-> "object", hasVocab |-> TRUE, vocab |-> v]
EmptyObj == [type |-> "object", hasVocab |-> FALSE, vocab |-> NoVal]
Scalar(t) == [type |-> t, hasVocab |-> FALSE, vocab |-> NoVal]

NoJlpt == Fields \ {"jlpt"}

\* what json.loads returns for each JSON text of the model
JsonDocs ==
    [d \in {"{}", "{vocab:[]}", "{vocab:null}", "{vocab:5}", "{vocab:[e]}",
            "{vocab:[e,e]}", "{vocab:[e,e,e]}", "{vocab:[e,e-jlpt]}",
            "{vocab:[word]}", "[]", "[e]", "'abc'", "42", "null"} |->
        CASE d = "{}" -> EmptyObj
          [] d = "{vocab:[]}" -> Obj(Arr(<<>>))
          [] d = "{vocab:null}" -> Obj(Null)
          [] d = "{vocab:5}" -> Obj(Num(5))
          [] d = "{vocab:[e]}" -> Obj(Arr(<<Fields>>))
          [] d = "{vocab:[e,e]}" -> Obj(Arr(<<Fields, Fields>>))
          [] d = "{vocab:[e,e,e]}" -> Obj(Arr(<<Fields, Fields, Fields>>))
          [] d = "{vocab:[e,e-jlpt]}" -> Obj(Arr(<<Fields, NoJlpt>>))
          [] d = "{vocab:[word]}" -> Obj(Arr(<<{"word"}>>))
          [] d = "[]" -> Scalar("array")
          [] d = "[e]" -> Scalar("array")
          [] d = "'abc'" -> Scalar("string")
          [] d = "42" -> Scalar("number")
          [] d = "null" -> Scalar("null")]

\* json.loads succeeds on one JSON text, surrounding JSON whitespace allowed
Decodable(text) == Len(strip(text)) = 1 /\ strip(text)[1] \in DOMAIN JsonDocs

json_loads(text) == JsonDocs[strip(text)[1]]

\* the value returned and the banners shown
parse_json_safely(text) ==
    IF Decodable(text)
    THEN [data |-> json_loads(text), errors |-> <<>>]
    ELSE [data |-> EmptyObj, errors |-> <<"InvalidJson">>]

\* data.get("vocab", [])
GetVocab(d) == IF d.hasVocab THEN d.vocab ELSE Arr(<<>>)

Truthy_any_value(v) == v.type \in {"array", "number"}

\* Python truth value
Truthy(v) ==
    CASE v.type = "array" -> v.items # <<>>
      [] v.type = "number" -> v.num # 0
      [] OTHER -> FALSE

(***************************************************************************)
(* The model client: each call answers with text or raises.                *)
(***************************************************************************)
OK == [ok |-> TRUE, isGoogleAPIError |-> FALSE, has429 |-> FALSE]
RateLimited == [ok |-> FALSE, isGoogleAPIError |-> TRUE, has429 |-> TRUE]
ServiceError == [ok |-> FALSE, isGoogleAPIError |-> TRUE, has429 |-> FALSE]
TransportError == [ok |-> FALSE, isGoogleAPIError |-> FALSE, has429 |-> FALSE]

Answers == {OK, RateLimited, ServiceError, TransportError}
\* a client that raises the same exception on its first k calls, then answers
FailsThenAnswers(e, k) == [i \in 1..ScriptLen |-> IF i <= k THEN e ELSE OK]

Scripts == {FailsThenAnswers(e, k) : e \in Answers \ {OK}, k \in 0..ScriptLen}

\* the banner call_gemini shows for an exception before st.stop()
call_gemini_error_swapped(e) ==
    IF e.isGoogleAPIError
    THEN (IF e.has429 THEN "ApiError" ELSE "Quota")
    ELSE "Unexpected"

call_gemini_error(e) ==
    IF e.isGoogleAPIError
    THEN (IF e.has429 THEN "Quota" ELSE "ApiError")
    ELSE "Unexpected"

(***************************************************************************)
(* Inputs.                                                                 *)
(***************************************************************************)
JpCounts == {0} \cup ((JpThreshold - 1)..MaxJp)

LyricsChoices ==
    {Rep("sp", a) \o Rep("hira", b) \o Rep("latin", c) \o Rep("nl", d) :
        a \in 0..MaxPad, b \in JpCounts, c \in 0..MaxLatin, d \in 0..MaxPad}

NumWordsChoices == {MinWords, 2, LengthFactor, MaxWords}

Fenced(t) == FENCE \o <<"nl">> \o t \o <<"nl">> \o FENCE
JsonFenced(t) == FENCE \o JSONTAG \o <<"nl">> \o t \o <<"nl">> \o FENCE

Responses ==
    {<<d>> : d \in DOMAIN JsonDocs}
    \cup {<<"n", "o", "t", "sp", "j", "s", "o", "n">>, <<>>}
    \cup {JsonFenced(<<"{vocab:[e,e]}">>), Fenced(<<"{vocab:[e]}">>),
          Fenced(JsonFenced(<<"{vocab:[e]}">>)),
          <<"sp">> \o JsonFenced(<<"{vocab:[]}">>) \o <<"nl">>}

(***************************************************************************)
(* The script.                                                             *)
(***************************************************************************)
Stages == <<"Validating", "Prompting", "Calling", "Sanitizing", "Parsing">>

Finished == {"Stopped", "Rendered"}

Init ==
    /\ API_KEY \in BOOLEAN
    /\ model \in (IF API_KEY THEN {"None", "loaded"} ELSE {"None"})
    /\ pc = "idle"
    /\ lyrics = <<>>
    /\ num_words = MinWords
    /\ client = [i \in 1..ScriptLen |-> OK]
    /\ prompt = build_prompt(<<>>, MinWords)
    /\ calls = 0
    /\ waits = <<>>
    /\ raw_output = <<>>
    /\ cleaned = <<>>
    /\ data = NoDoc
    /\ vocab_list = NoVal
    /\ errors = <<>>
    /\ outcome = "none"
    /\ uncaught = ""
    /\ trail = <<>>
    /\ sanTrace = <<>>

\* st.error(...) followed by st.stop()
Stop(msgs) ==
    /\ errors' = errors \o msgs
    /\ outcome' = "Failed"
    /\ pc' = "Stopped"

\* an exception nothing catches ends the script run
Raise(name) ==
    /\ uncaught' = name
    /\ outcome' = "Crashed"
    /\ pc' = "Stopped"

\* the user fills the widgets and presses Process: a new script run
Process ==
    /\ pc = "idle"
    /\ model # "None"
    /\ \E l \in LyricsChoices, n \in NumWordsChoices, c \in Scripts :
        /\ lyrics' = l
        /\ num_words' = n
        /\ client' = c
    /\ pc' = "Validating"
    /\ trail' = <<"Validating">>
    /\ prompt' = build_prompt(<<>>, MinWords)
    /\ calls' = 0
    /\ waits' = <<>>
    /\ raw_output' = <<>>
    /\ cleaned' = <<>>
    /\ data' = NoDoc
    /\ vocab_list' = NoVal
    /\ errors' = <<>>
    /\ outcome' = "none"
    /\ uncaught' = ""
    /\ UNCHANGED <<API_KEY, model, sanTrace>>

TooShort(l, n) == l = <<>> \/ Len(strip(l)) < n * LengthFactor

Validate_no_language_check ==
    /\ pc = "Validating"
    /\ IF ~API_KEY
       THEN Stop(<<"NoApiKey">>) /\ UNCHANGED trail
       ELSE IF TooShort(lyrics, num_words)
       THEN Stop(<<"InsufficientLength">>) /\ UNCHANGED trail
       ELSE /\ pc' = "Prompting"
            /\ trail' = Append(trail, "Prompting")
            /\ UNCHANGED <<errors, outcome>>
    /\ UNCHANGED <<API_KEY, model, lyrics, num_words, client, prompt, calls,
                   waits, raw_output, cleaned, data, vocab_list, uncaught,
                   sanTrace>>

Validate ==
    /\ pc = "Validating"
    /\ IF ~API_KEY
       THEN Stop(<<"NoApiKey">>) /\ UNCHANGED trail
       ELSE IF TooShort(lyrics, num_words)
       THEN Stop(<<"InsufficientLength">>) /\ UNCHANGED trail
       ELSE IF ~is_japanese(lyrics)
       THEN Stop(<<"NotJapanese">>) /\ UNCHANGED trail
       ELSE /\ pc' = "Prompting"
            /\ trail' = Append(trail, "Prompting")
            /\ UNCHANGED <<errors, outcome>>
    /\ UNCHANGED <<API_KEY, model, lyrics, num_words, client, prompt, calls,
                   waits, raw_output, cleaned, data, vocab_list, uncaught,
                   sanTrace>>

Prompt ==
    /\ pc = "Prompting"
    /\ prompt' = build_prompt(lyrics, num_words)
    /\ pc' = "Calling"
    /\ trail' = Append(trail, "Calling")
    /\ UNCHANGED <<API_KEY, model, lyrics, num_words, client, calls, waits,
                   raw_output, cleaned, data, vocab_list, errors, outcome,
                   uncaught, sanTrace>>

\* call_gemini: generate_content answers, response.text is returned
CallOk ==
    /\ pc = "Calling"
    /\ client[calls + 1].ok
    /\ calls' = calls + 1
    /\ \E r \in Responses : raw_output' = r
    /\ pc' = "Sanitizing"
    /\ trail' = Append(trail, "Sanitizing")
    /\ UNCHANGED <<API_KEY, model, lyrics, num_words, client, prompt, waits,
                   cleaned, data, vocab_list, errors, outcome, uncaught,
                   sanTrace>>

\* a variant that retries every failure up to three attempts with 2^attempt
\* seconds of sleep in between
CallFail_backoff ==
    /\ pc = "Calling"
    /\ ~client[calls + 1].ok
    /\ calls' = calls + 1
    /\ IF calls + 1 < ScriptLen
       THEN /\ waits' = Append(waits, 2 ^ (calls + 1))
            /\ UNCHANGED <<pc, errors, outcome>>
       ELSE /\ Stop(<<call_gemini_error(client[calls + 1])>>)
            /\ UNCHANGED waits
    /\ UNCHANGED <<API_KEY, model, lyrics, num_words, client, prompt,
                   raw_output, cleaned, data, vocab_list, uncaught, trail,
                   sanTrace>>

\* a variant that retries the failures that are not rate limits, the same way
CallFail_backoff3x ==
    /\ pc = "Calling"
    /\ ~client[calls + 1].ok
    /\ calls' = calls + 1
    /\ IF calls + 1 < ScriptLen /\ call_gemini_error(client[calls + 1]) # "Quota"
       THEN /\ waits' = Append(waits, 2 ^ (calls + 1))
            /\ UNCHANGED <<pc, errors, outcome>>
       ELSE /\ Stop(<<call_gemini_error(client[calls + 1])>>)
            /\ UNCHANGED waits
    /\ UNCHANGED <<API_KEY, model, lyrics, num_words, client, prompt,
                   raw_output, cleaned, data, vocab_list, uncaught, trail,
                   sanTrace>>

\* call_gemini: generate_content raises, a banner is shown and the run stops
CallFail ==
    /\ pc = "Calling"
    /\ ~client[calls + 1].ok
    /\ calls' = calls + 1
    /\ Stop(<<call_gemini_error(client[calls + 1])>>)
    /\ UNCHANGED <<API_KEY, model, lyrics, num_words, client, prompt, waits,
                   raw_output, cleaned, data, vocab_list, uncaught, trail,
                   sanTrace>>

Sanitize ==
    /\ pc = "Sanitizing"
    /\ cleaned' = clean_gemini_output(raw_output)
    /\ pc' = "Parsing"
    /\ trail' = Append(trail, "Parsing")
    /\ UNCHANGED <<API_KEY, model, lyrics, num_words, client, prompt, calls,
                   waits, raw_output, data, vocab_list, errors, outcome,
                   uncaught, sanTrace>>

\* parse_json_safely, data.get("vocab", []) and the check of vocab_list
Parse ==
    /\ pc = "Parsing"
    /\ LET parsed == parse_json_safely(cleaned)
       IN  /\ data' = parsed.data
           /\ IF parsed.data.type # "object"
              THEN /\ Raise("AttributeError")
                   /\ errors' = errors \o parsed.errors
                   /\ UNCHANGED vocab_list
              ELSE IF ~Truthy(GetVocab(parsed.data))
              THEN /\ Stop(parsed.errors \o <<"NoVocabulary">>)
                   /\ UNCHANGED <<vocab_list, uncaught>>
              ELSE /\ vocab_list' = GetVocab(parsed.data)
                   /\ errors' = errors \o parsed.errors
                   /\ outcome' = "Done"
                   /\ pc' = "Done"
                   /\ UNCHANGED uncaught
    /\ UNCHANGED <<API_KEY, model, lyrics, num_words, client, prompt, calls,
                   waits, raw_output, cleaned, trail, sanTrace>>

\* the tabs and the CSV export
Render ==
    /\ pc = "Done"
    /\ IF vocab_list.type # "array"
       THEN Raise("ValueError")
       ELSE IF \E i \in 1..Len(vocab_list.items) :
                   ~(Fields \subseteq vocab_list.items[i])
       THEN Raise("KeyError")
       ELSE pc' = "Rendered" /\ UNCHANGED <<uncaught, outcome>>
    /\ UNCHANGED <<API_KEY, model, lyrics, num_words, client, prompt, calls,
                   waits, raw_output, cleaned, data, vocab_list, errors,
                   trail, sanTrace>>

\* any later interaction reruns the script with the button not pressed:
\* nothing of the finished run stays on the page
Rerun ==
    /\ pc \in Finished
    /\ pc' = "idle"
    /\ lyrics' = <<>>
    /\ num_words' = MinWords
    /\ client' = [i \in 1..ScriptLen |-> OK]
    /\ prompt' = build_prompt(<<>>, MinWords)
    /\ calls' = 0
    /\ waits' = <<>>
    /\ raw_output' = <<>>
    /\ cleaned' = <<>>
    /\ data' = NoDoc
    /\ vocab_list' = NoVal
    /\ errors' = <<>>
    /\ outcome' = "none"
    /\ uncaught' = ""
    /\ trail' = <<>>
    /\ UNCHANGED <<API_KEY, model, sanTrace>>

Next ==
    \/ Process
    \/ Validate
    \/ Prompt
    \/ CallOk
    \/ CallFail
    \/ Sanitize
    \/ Parse
    \/ Render
    \/ Rerun

Spec == Init /\ [][Next]_vars

(***************************************************************************)
(* The sanitizer alone: clean_gemini_output applied, and applied again,    *)
(* to every text made of at most MaxTokens pieces.                         *)
(***************************************************************************)
SanTokens == {FENCE, JSONTAG, <<"nl">>, <<"{vocab:[]}">>, <<"bt">>}

RECURSIVE TextsOf(_)
TextsOf(k) ==
    IF k = 0 THEN {<<>>}
    ELSE LET shorter == TextsOf(k - 1)
         IN  shorter \cup {t \o tok : t \in shorter, tok \in SanTokens}

SanInputs == TextsOf(MaxTokens)

SanInit ==
    /\ API_KEY = FALSE
    /\ model = "None"
    /\ pc = "idle"
    /\ lyrics = <<>>
    /\ num_words = MinWords
    /\ client = [i \in 1..ScriptLen |-> OK]
    /\ prompt = build_prompt(<<>>, MinWords)
    /\ calls = 0
    /\ waits = <<>>
    /\ raw_output = <<>>
    /\ cleaned = <<>>
    /\ data = NoDoc
    /\ vocab_list = NoVal
    /\ errors = <<>>
    /\ outcome = "none"
    /\ uncaught = ""
    /\ trail = <<>>
    /\ \E x \in SanInputs : sanTrace = <<x>>

SanApply ==
    /\ Len(sanTrace) \in 1..2
    /\ sanTrace' = Append(sanTrace, clean_gemini_output(sanTrace[Len(sanTrace)]))
    /\ UNCHANGED <<API_KEY, model, pc, lyrics, num_words, client, prompt,
                   calls, waits, raw_output, cleaned, data, vocab_list,
                   errors, outcome, uncaught, trail>>

SanNext == SanApply

SanitizeSpec == SanInit /\ [][SanNext]_vars

(***************************************************************************)
(* Properties.                                                             *)
(***************************************************************************)
Entered(stage) == \E i \in 1..Len(trail) : trail[i] = stage

\* the run is over, or has handed its result to the rendering code
Returned == pc \in Finished \cup {"Done"}

\* the parsing step of the run is over
Parsed == Entered("Parsing") /\ pc # "Parsing"

\* C1: when the first model call is rate limited, the run fails with the
\* quota error after exactly one call, without any wait, and without a
\* vocabulary.
C1_RateLimitedFailsFast ==
    (pc # "idle" /\ calls >= 1 /\ client[1] = RateLimited) =>
        /\ calls = 1
        /\ waits = <<>>
        /\ pc = "Stopped"
        /\ outcome = "Failed"
        /\ errors = <<"Quota">>
        /\ vocab_list = NoVal

C1_Witness ==
    /\ pc = "Stopped"
    /\ calls = 1
    /\ client = FailsThenAnswers(RateLimited, 1)
    /\ errors = <<"Quota">>

\* C2 as claimed: a client failing twice with ServiceError and then
\* answering makes the run succeed after 3 calls and waits of 2 and 4 seconds.
C2_BackoffThreeCalls ==
    (Returned /\ Entered("Calling")
              /\ client = FailsThenAnswers(ServiceError, 2)) =>
        /\ outcome \in {"Done", "Crashed"}
        /\ calls = 3
        /\ waits = <<2, 4>>

\* C2, amended: when the first model call fails with ServiceError, the run
\* fails with the API error after exactly one call, without any wait and
\* without a vocabulary; nothing is retried.
C2_ServiceErrorFailsAfterOneCall ==
    (pc # "idle" /\ calls >= 1 /\ client[1] = ServiceError) =>
        /\ calls = 1
        /\ waits = <<>>
        /\ pc = "Stopped"
        /\ outcome = "Failed"
        /\ errors = <<"ApiError">>
        /\ vocab_list = NoVal

C2_Witness ==
    /\ pc = "Stopped"
    /\ calls = 1
    /\ client = FailsThenAnswers(ServiceError, 2)
    /\ errors = <<"ApiError">>

InvalidLyrics ==
    \/ lyrics = <<>>
    \/ Len(strip(lyrics)) < num_words * LengthFactor
    \/ Len(SelectSeq(lyrics, IsJpChar)) < JpThreshold

\* C3: a run whose lyrics are absent, too short or not Japanese enough ends
\* with an invalid-input error, and never builds a prompt or calls the model.
C3_InvalidInputBeforeAnyCall ==
    (pc # "idle" /\ InvalidLyrics) =>
        /\ calls = 0
        /\ ~Entered("Prompting")
        /\ pc \in {"Validating", "Stopped"}
        /\ pc = "Stopped" =>
              /\ outcome = "Failed"
              /\ errors \in {<<"InsufficientLength">>, <<"NotJapanese">>}

C3_Witness ==
    /\ pc = "Stopped"
    /\ errors = <<"NotJapanese">>
    /\ Len(SelectSeq(lyrics, IsJpChar)) = JpThreshold - 1
    /\ Len(strip(lyrics)) >= num_words * LengthFactor
    /\ calls = 0

\* C4 as claimed: an answer that does not decode as JSON ends the run with
\* the invalid-JSON error and nothing else, after one call, without a
\* vocabulary.
C4_InvalidJsonOnly ==
    (Parsed /\ ~Decodable(cleaned)) =>
        /\ outcome = "Failed"
        /\ errors = <<"InvalidJson">>
        /\ calls = 1
        /\ vocab_list = NoVal

\* C5 as claimed: an answer that decodes as JSON of any type, with vocab
\* absent or an empty array, ends the run with the no-vocabulary error, no
\* uncaught exception and no vocabulary.
C5_EmptyVocabularyHandled ==
    (/\ Parsed
     /\ Decodable(cleaned)
     /\ (~json_loads(cleaned).hasVocab \/ json_loads(cleaned).vocab = Arr(<<>>))) =>
        /\ outcome = "Failed"
        /\ errors = <<"NoVocabulary">>
        /\ uncaught = ""
        /\ vocab_list = NoVal

\* C6 as claimed: a returned vocabulary has between 1 and num_words entries.
C6_AtMostWordCount ==
    (outcome = "Done" /\ vocab_list.type = "array") =>
        /\ Len(vocab_list.items) >= 1
        /\ Len(vocab_list.items) <= num_words

\* C6, amended: a returned vocabulary array has at least 1 entry and is the
\* decoded vocab array itself, every entry of it, whatever num_words is.
C6_AtLeastOneAsReturned ==
    (outcome = "Done" /\ vocab_list.type = "array") =>
        /\ Len(vocab_list.items) >= 1
        /\ Decodable(cleaned)
        /\ vocab_list = json_loads(cleaned).vocab

C6_Witness ==
    /\ outcome = "Done"
    /\ vocab_list.type = "array"
    /\ Len(vocab_list.items) > num_words

\* C7 as claimed: every entry of a returned vocabulary has the five fields,
\* and an element that misses one never aborts the run.
C7_AllFiveFields ==
    /\ (outcome = "Done" /\ vocab_list.type = "array") =>
           \A i \in 1..Len(vocab_list.items) : Fields \subseteq vocab_list.items[i]
    /\ uncaught # "KeyError"

(* what the claims about the sanitizer expect of it *)
RECURSIVE DropLeading(_)
DropLeading(s) ==
    IF s # <<>> /\ Head(s) \in Whitespace THEN DropLeading(Tail(s)) ELSE s

RECURSIVE DropTrailing(_)
DropTrailing(s) ==
    IF s # <<>> /\ s[Len(s)] \in Whitespace
    THEN DropTrailing(SubSeq(s, 1, Len(s) - 1))
    ELSE s

Trimmed(s) == DropTrailing(DropLeading(s))

FenceWrapped(t) ==
    /\ Len(t) >= 3
    /\ \A i \in 1..3 : t[i] = "bt" /\ t[Len(t) - 3 + i] = "bt"

Interior(t) == IF Len(t) < 6 THEN <<>> ELSE SubSeq(t, 4, Len(t) - 3)

WithoutTag(s) ==
    IF Len(s) >= 4 /\ s[1] = "j" /\ s[2] = "s" /\ s[3] = "o" /\ s[4] = "n"
    THEN SubSeq(s, 5, Len(s))
    ELSE s

Expected(x) ==
    IF FenceWrapped(Trimmed(x))
    THEN Trimmed(WithoutTag(Interior(Trimmed(x))))
    ELSE Trimmed(x)

\* C8 as claimed: cleaning a cleaned text changes nothing.
C8_Idempotent == Len(sanTrace) = 3 => sanTrace[3] = sanTrace[2]

\* C8, amended: cleaning a cleaned text changes nothing unless the cleaned
\* text itself still starts and ends with a fence (one layer is stripped per
\* application).
C8_IdempotentUnlessStillFenced ==
    (Len(sanTrace) = 3 /\ ~FenceWrapped(sanTrace[2])) => sanTrace[3] = sanTrace[2]

C8_Witness ==
    /\ Len(sanTrace) = 3
    /\ FenceWrapped(Trimmed(sanTrace[1]))
    /\ sanTrace[2] # <<>>
    /\ ~FenceWrapped(sanTrace[2])
    /\ sanTrace[3] = sanTrace[2]

\* C9: the sanitizer returns, for a trimmed text that starts and ends with a
\* fence, its trimmed interior without the fences and without a json tag
\* right after the opening fence, and for any other text the trimmed text.
C9_SanitizeAsSpecified ==
    Len(sanTrace) >= 2 => sanTrace[2] = Expected(sanTrace[1])

C9_Witness ==
    /\ Len(sanTrace) >= 2
    /\ sanTrace[1] = JsonFenced(<<"{vocab:[]}">>)
    /\ sanTrace[2] = <<"{vocab:[]}">>

\* C10 as claimed: a run makes at most 3 calls and ends either Done, having
\* gone through the five stages in order, or Failed with one typed error and
\* no vocabulary; after a failed call nothing is sanitized or parsed.
C10_TwoOutcomes ==
    /\ calls <= 3
    /\ Returned => outcome \in {"Done", "Failed"}
    /\ outcome = "Done" => trail = Stages /\ errors = <<>>
    /\ outcome = "Failed" => Len(errors) = 1 /\ vocab_list = NoVal
    /\ (calls >= 1 /\ ~client[1].ok) =>
           ~Entered("Sanitizing") /\ ~Entered("Parsing") /\ vocab_list = NoVal

====
